---- MODULE Spec2Model ----
(***************************************************************************)
(* Route matching (services/routeMatcher.ts), the jq service               *)
(* (services/jqEngine.ts) and the simulation store                         *)
(* (store/simulationStore.ts) of openhqm-rm.                               *)
(*                                                                         *)
(* JavaScript values are tagged records; JavaScript strings are tuples of  *)
(* one-character strings, so that split, includes and RegExp.test are      *)
(* computed and not assumed.                                               *)
(***************************************************************************)
EXTENDS Integers, Sequences, FiniteSets, TLC

(***************************************************************************)
(* Bounds of the model.                                                    *)
(***************************************************************************)
MaxRoutes == 3
MaxConditions == 3
MaxCalls == 2
MaxClock == 2
MaxRuns == 11
MaxInits == 3
MaxStored == 3
MaxCopies == 1

(***************************************************************************)
(* JavaScript values.                                                      *)
(***************************************************************************)
Undefined == [t |-> "undefined"]
Null == [t |-> "null"]
Bool(b) == [t |-> "boolean", b |-> b]
Num(n) == [t |-> "number", n |-> n]
Str(s) == [t |-> "string", s |-> s]
Obj(f) == [t |-> "object", f |-> f]
Arr(e) == [t |-> "array", e |-> e]
Fn(name) == [t |-> "function", name |-> name]

EmptyObj == Obj(<<>>)

Digits == <<"0", "1", "2", "3", "4", "5", "6", "7", "8", "9">>

RECURSIVE NatToString(_)
RECURSIVE String(_)
RECURSIVE Join(_)
NatToString(n) ==
    IF n < 10 THEN <<Digits[n + 1]>>
    ELSE NatToString(n \div 10) \o <<Digits[(n % 10) + 1]>>

\* String(v)
String(v) ==
    CASE v.t = "undefined" -> <<"u", "n", "d", "e", "f", "i", "n", "e", "d">>
      [] v.t = "null" -> <<"n", "u", "l", "l">>
      [] v.t = "boolean" -> IF v.b THEN <<"t", "r", "u", "e">>
                            ELSE <<"f", "a", "l", "s", "e">>
      [] v.t = "number" -> IF v.n < 0 THEN <<"-">> \o NatToString(0 - v.n)
                           ELSE NatToString(v.n)
      [] v.t = "string" -> v.s
      [] v.t = "object" -> <<"[", "o", "b", "j", "e", "c", "t", " ",
                             "O", "b", "j", "e", "c", "t", "]">>
      [] v.t = "array" -> Join(v.e)
      [] v.t = "function" ->
            <<"f", "u", "n", "c", "t", "i", "o", "n", " ">> \o v.name
            \o <<"(", ")", " ", "{", " ", "[", "n", "a", "t", "i", "v", "e", " ", "c", "o", "d", "e", "]", " ", "}">>

\* Array.prototype.join(','): null and undefined elements give ''
Join(e) ==
    IF e = <<>> THEN <<>>
    ELSE LET first == IF Head(e).t \in {"undefined", "null"} THEN <<>>
                      ELSE String(Head(e))
         IN IF Len(e) = 1 THEN first
            ELSE first \o <<",">> \o Join(Tail(e))

\* Boolean(v), the truthiness used by !x, by filter and by Boolean()
Truthy(v) ==
    CASE v.t = "undefined" -> FALSE
      [] v.t = "null" -> FALSE
      [] v.t = "boolean" -> v.b
      [] v.t = "number" -> v.n # 0
      [] v.t = "string" -> v.s # <<>>
      [] v.t = "object" -> TRUE
      [] v.t = "array" -> TRUE
      [] v.t = "function" -> TRUE

\* a === b; two objects are never the same reference here, because one
\* comes from the condition and the other from the input
StrictEquals(a, b) ==
    /\ a.t = b.t
    /\ a.t \notin {"object", "array", "function"}
    /\ a = b

\* s.startsWith(p) at offset i
PrefixAt(s, p, i) ==
    /\ i + Len(p) - 1 <= Len(s)
    /\ \A k \in 1..Len(p) : s[i + k - 1] = p[k]

\* s.includes(p)
Includes(s, p) == \E i \in 1..(Len(s) + 1) : PrefixAt(s, p, i)

\* s.split('.')
RECURSIVE Split(_)
Split(s) ==
    IF \A i \in 1..Len(s) : s[i] # "."
    THEN <<s>>
    ELSE LET i == CHOOSE j \in 1..Len(s) :
                      /\ s[j] = "."
                      /\ \A k \in 1..(j - 1) : s[k] # "."
         IN <<SubSeq(s, 1, i - 1)>> \o Split(SubSeq(s, i + 1, Len(s)))

\* the own property key of current, undefined when it has none
OwnProp(current, key) ==
    CASE current.t = "undefined" -> Undefined
      [] current.t = "null" -> Undefined
      [] current.t = "object" ->
            IF key \in DOMAIN current.f THEN current.f[key] ELSE Undefined
      [] current.t = "string" ->
            IF key = <<"l", "e", "n", "g", "t", "h">>
            THEN Num(Len(current.s))
            ELSE IF \E i \in 1..Len(current.s) : key = NatToString(i - 1)
                 THEN LET i == CHOOSE j \in 1..Len(current.s) :
                                   key = NatToString(j - 1)
                      IN Str(<<current.s[i]>>)
                 ELSE Undefined
      [] current.t = "array" ->
            IF key = <<"l", "e", "n", "g", "t", "h">>
            THEN Num(Len(current.e))
            ELSE IF \E i \in 1..Len(current.e) : key = NatToString(i - 1)
                 THEN current.e[CHOOSE j \in 1..Len(current.e) :
                                    key = NatToString(j - 1)]
                 ELSE Undefined
      [] OTHER -> Undefined

\* the constructor every value but null and undefined inherits
Constructor(current) ==
    CASE current.t = "object" -> Fn(<<"O", "b", "j", "e", "c", "t">>)
      [] current.t = "array" -> Fn(<<"A", "r", "r", "a", "y">>)
      [] current.t = "string" -> Fn(<<"S", "t", "r", "i", "n", "g">>)
      [] current.t = "number" -> Fn(<<"N", "u", "m", "b", "e", "r">>)
      [] current.t = "boolean" -> Fn(<<"B", "o", "o", "l", "e", "a", "n">>)
      [] current.t = "function" -> Fn(<<"F", "u", "n", "c", "t", "i", "o", "n">>)

\* current?.[key]: an own property, or one of the prototype chain
GetProp(current, key) ==
    IF current.t \in {"undefined", "null"} THEN Undefined
    ELSE IF OwnProp(current, key).t # "undefined" THEN OwnProp(current, key)
         ELSE IF key = <<"c", "o", "n", "s", "t", "r", "u", "c", "t", "o", "r">>
              THEN Constructor(current)
              ELSE Undefined

RECURSIVE Reduce(_, _)
Reduce(current, keys) ==
    IF keys = <<>> THEN current
    ELSE Reduce(GetProp(current, Head(keys)), Tail(keys))

getNestedValue(obj, path) == Reduce(obj, Split(path))

(***************************************************************************)
(* new RegExp(expected).test(s) for the patterns of the model: literal     *)
(* characters, "." for any character, a leading "^", a trailing "$". A     *)
(* pattern holding "(" or "[" is an unterminated group or class: the       *)
(* constructor throws.                                                     *)
(***************************************************************************)
RegExpSource(expected) ==
    IF expected.t = "undefined" THEN <<>> ELSE String(expected)

RegExpThrows(src) == \E i \in 1..Len(src) : src[i] \in {"(", "["}

MatchAt(s, body, i) ==
    /\ i + Len(body) - 1 <= Len(s)
    /\ \A k \in 1..Len(body) : body[k] = "." \/ s[i + k - 1] = body[k]

RegExpTest(src, s) ==
    LET anchoredStart == Len(src) > 0 /\ src[1] = "^"
        rest == IF anchoredStart THEN Tail(src) ELSE src
        anchoredEnd == Len(rest) > 0 /\ rest[Len(rest)] = "$"
        body == IF anchoredEnd THEN SubSeq(rest, 1, Len(rest) - 1) ELSE rest
    IN \E i \in 1..(Len(s) + 1) :
          /\ MatchAt(s, body, i)
          /\ anchoredStart => i = 1
          /\ anchoredEnd => i + Len(body) - 1 = Len(s)

\* mutant: exists tests the value's truthiness
compareValuesExistsTruthy(actual, operator, expected) ==
    CASE operator = "equals" -> StrictEquals(actual, expected)
      [] operator = "contains" -> Includes(String(actual), String(expected))
      [] operator = "regex" ->
            IF RegExpThrows(RegExpSource(expected)) THEN FALSE
            ELSE RegExpTest(RegExpSource(expected), String(actual))
      [] operator = "exists" -> Truthy(actual)
      [] OTHER -> FALSE

compareValues(actual, operator, expected) ==
    CASE operator = "equals" -> StrictEquals(actual, expected)
      [] operator = "contains" -> Includes(String(actual), String(expected))
      [] operator = "regex" ->
            IF RegExpThrows(RegExpSource(expected)) THEN FALSE
            ELSE RegExpTest(RegExpSource(expected), String(actual))
      [] operator = "exists" -> actual.t # "undefined" /\ actual.t # "null"
      [] OTHER -> FALSE


(***************************************************************************)
(* services/jqEngine.ts.  jq-web itself is a library: jq.json is computed  *)
(* for the expressions of the model, "." and the paths ".a.b", with jq's   *)
(* own results (a missing key gives null, indexing a non-object fails,     *)
(* anything else does not compile).                                        *)
(***************************************************************************)
IsPathExpression(expression) ==
    /\ Len(expression) >= 1
    /\ expression[1] = "."
    /\ \A i \in 1..Len(expression) :
          expression[i] \in {".", "a", "b", "c", "d", "e", "f", "g", "h", "i",
                             "j", "k", "l", "m", "n", "o", "p", "q", "r", "s",
                             "t", "u", "v", "w", "x", "y", "z"}
    /\ \A i \in 1..(Len(expression) - 1) :
          ~(expression[i] = "." /\ expression[i + 1] = ".")
    /\ Len(expression) > 1 => expression[Len(expression)] # "."

RECURSIVE JqPath(_, _)
JqPath(v, keys) ==
    IF keys = <<>> THEN [ok |-> TRUE, value |-> v]
    ELSE CASE v.t = "null" -> JqPath(Null, Tail(keys))
           [] v.t = "object" ->
                 JqPath(IF Head(keys) \in DOMAIN v.f THEN v.f[Head(keys)]
                        ELSE Null, Tail(keys))
           [] OTHER -> [ok |-> FALSE,
                        message |-> [prefixed |-> TRUE,
                                     text |-> "Cannot index"]]

\* this.jq.json(inputData, expression): a value, or a thrown error
JqJson(inputData, expression) ==
    IF expression = <<".">> THEN [ok |-> TRUE, value |-> inputData]
    ELSE IF IsPathExpression(expression)
         THEN JqPath(inputData, Split(Tail(expression)))
         ELSE [ok |-> FALSE,
               message |-> [prefixed |-> TRUE, text |-> "syntax error"]]

\* message.replace(/jq: error:?/gi, '').trim()
parseJQError(error) == error.text

getSuggestions(error) ==
    IF error.text = "syntax error"
    THEN <<"Verify JQ syntax", "Check for unmatched quotes or brackets">>
    ELSE <<>>

\* JQService.init: whether the call leaves the service initialised;
\* importing jq-web succeeds or fails for the whole session
JqInit(initialized, module) == initialized \/ module = "loaded"

\* mutant: init is not awaited, a call on a service that is not initialised
\* finds jq null and reports the TypeError as a failure
JqTransformNoAwait(initialized, module, expression, inputData) ==
    IF ~initialized
    THEN [thrown |-> FALSE, success |-> FALSE, output |-> Undefined,
          error |-> "Cannot read properties of null", suggestions |-> <<>>]
    ELSE LET r == JqJson(inputData, expression)
         IN IF r.ok
            THEN [thrown |-> FALSE, success |-> TRUE, output |-> r.value,
                  error |-> "", suggestions |-> <<>>]
            ELSE [thrown |-> FALSE, success |-> FALSE, output |-> Undefined,
                  error |-> parseJQError(r.message),
                  suggestions |-> getSuggestions(r.message)]

\* JQService.transform: the TransformResult, or thrown when init throws
JqTransform(initialized, module, expression, inputData) ==
    IF ~JqInit(initialized, module)
    THEN [thrown |-> TRUE, message |-> "Failed to load jq-web"]
    ELSE LET r == JqJson(inputData, expression)
         IN IF r.ok
            THEN [thrown |-> FALSE, success |-> TRUE, output |-> r.value,
                  error |-> "", suggestions |-> <<>>]
            ELSE [thrown |-> FALSE, success |-> FALSE, output |-> Undefined,
                  error |-> parseJQError(r.message),
                  suggestions |-> getSuggestions(r.message)]

(***************************************************************************)
(* services/routeMatcher.ts                                                *)
(***************************************************************************)
\* mutant: the output is tested as jq tests it, false and null alone are false
evaluateJQConditionJqTest(condition, input, initialized, module) ==
    IF ~Truthy(condition.jqExpression) THEN FALSE
    ELSE LET result == JqTransform(initialized, module,
                                   condition.jqExpression.s, input.payload)
         IN IF result.thrown THEN FALSE
            ELSE /\ result.success
                 /\ result.output.t # "null"
                 /\ result.output.t = "boolean" => result.output.b

evaluateJQCondition(condition, input, initialized, module) ==
    IF ~Truthy(condition.jqExpression) THEN FALSE
    ELSE LET result == JqTransform(initialized, module,
                                   condition.jqExpression.s, input.payload)
         IN IF result.thrown THEN FALSE
            ELSE result.success /\ Truthy(result.output)

evaluatePayloadCondition(condition, input) ==
    IF ~Truthy(condition.field) THEN FALSE
    ELSE compareValues(getNestedValue(input.payload, condition.field.s),
                       condition.operator, condition.value)

evaluateHeaderCondition(condition, input) ==
    IF ~Truthy(condition.field) THEN FALSE
    ELSE compareValues(GetProp(input.headers, condition.field.s),
                       condition.operator, condition.value)

evaluateMetadataCondition(condition, input) ==
    IF ~Truthy(condition.field) THEN FALSE
    ELSE compareValues(GetProp(input.metadata, condition.field.s),
                       condition.operator, condition.value)

evaluateCondition(condition, input, initialized, module) ==
    CASE condition.type = "jq" ->
            evaluateJQCondition(condition, input, initialized, module)
      [] condition.type = "payload" -> evaluatePayloadCondition(condition, input)
      [] condition.type = "header" -> evaluateHeaderCondition(condition, input)
      [] condition.type = "metadata" ->
            evaluateMetadataCondition(condition, input)
      [] OTHER -> FALSE

\* the results array of Promise.all(route.conditions.map(...))
ConditionResults(route, input, initialized, module) ==
    [i \in 1..Len(route.conditions) |->
        evaluateCondition(route.conditions[i], input, initialized, module)]

\* mutant: the empty case of lines 132-134 is missing
evaluateConditionsNoEmptyCase(route, input, initialized, module) ==
    LET results == ConditionResults(route, input, initialized, module)
    IN IF route.conditionOperator = "AND"
       THEN \A i \in 1..Len(results) : results[i]
       ELSE \E i \in 1..Len(results) : results[i]

\* mutant: every and some are exchanged
evaluateConditionsSwapped(route, input, initialized, module) ==
    IF Len(route.conditions) = 0 THEN TRUE
    ELSE LET results == ConditionResults(route, input, initialized, module)
         IN IF route.conditionOperator = "AND"
            THEN \E i \in 1..Len(results) : results[i]
            ELSE \A i \in 1..Len(results) : results[i]

evaluateConditions(route, input, initialized, module) ==
    IF Len(route.conditions) = 0 THEN TRUE
    ELSE LET results == ConditionResults(route, input, initialized, module)
         IN IF route.conditionOperator = "AND"
            THEN \A i \in 1..Len(results) : results[i]
            ELSE \E i \in 1..Len(results) : results[i]

\* whether evaluating the route's conditions calls jqService.transform
CallsJq(route) ==
    \E i \in 1..Len(route.conditions) :
        /\ route.conditions[i].type = "jq"
        /\ Truthy(route.conditions[i].jqExpression)

\* evaluateCondition suspends: a jq condition with an expression awaits
\* jqService.transform; every other condition returns without an await
Suspends(condition) ==
    /\ condition.type = "jq"
    /\ Truthy(condition.jqExpression)

Started(k, j) == [e |-> "start", rule |-> k, condition |-> j]
Invoked(k, j) == [e |-> "invoke", rule |-> k, condition |-> j]
Ended(k, j) == [e |-> "end", rule |-> k, condition |-> j]
Transformed(k) == [e |-> "transform", rule |-> k, condition |-> 0]

RECURSIVE Flat(_)
Flat(ss) == IF ss = <<>> THEN <<>> ELSE Head(ss) \o Flat(Tail(ss))

\* mutant: the conditions are awaited one after the other
ConditionEventsInTurn(k, route) ==
    Flat([j \in 1..Len(route.conditions) |->
             IF Suspends(route.conditions[j])
             THEN <<Started(k, j), Invoked(k, j), Ended(k, j)>>
             ELSE <<Started(k, j), Ended(k, j)>>])

\* mutant: a jq condition that came out false is evaluated once more
ConditionEventsAgain(k, route) ==
    Flat([j \in 1..Len(route.conditions) |->
             IF Suspends(route.conditions[j])
             THEN <<Started(k, j), Invoked(k, j)>>
             ELSE <<Started(k, j), Ended(k, j)>>])
    \o Flat([j \in 1..Len(route.conditions) |->
                IF Suspends(route.conditions[j])
                THEN <<Ended(k, j), Started(k, j), Invoked(k, j), Ended(k, j)>>
                ELSE <<>>])

\* what one call of evaluateConditions on the k-th rule does, in order
\* (lines 136-138): map calls evaluateCondition on every condition in turn,
\* each call runs up to its first await, and the suspended ones end after
\* the last has started, before Promise.all resolves
ConditionEvents(k, route) ==
    Flat([j \in 1..Len(route.conditions) |->
             IF Suspends(route.conditions[j])
             THEN <<Started(k, j), Invoked(k, j)>>
             ELSE <<Started(k, j), Ended(k, j)>>])
    \o Flat([j \in 1..Len(route.conditions) |->
                IF Suspends(route.conditions[j]) THEN <<Ended(k, j)>>
                ELSE <<>>])

\* mutant: the rule after the k-th is evaluated along with it
LoopTurnAhead(sortedRoutes, k) ==
    ConditionEvents(k, sortedRoutes[k])
    \o IF k < Len(sortedRoutes)
       THEN ConditionEvents(k + 1, sortedRoutes[k + 1])
       ELSE <<>>

\* one turn of the loop of matchRoute (line 123): the k-th rule alone is
\* evaluated, and the loop waits for its result
LoopTurn(sortedRoutes, k) == ConditionEvents(k, sortedRoutes[k])

\* mutant: the filter keeps every rule
FilterAll(routes) == routes

\* routes.filter((r) => r.enabled)
FilterEnabled(routes) == SelectSeq(routes, LAMBDA r : r.enabled)

\* mutant: the comparator is a.priority - b.priority
InsertAscending(sorted, r) ==
    LET before == {i \in 1..Len(sorted) : sorted[i].priority <= r.priority}
        k == IF before = {} THEN 0
             ELSE CHOOSE i \in before : \A j \in before : j <= i
    IN SubSeq(sorted, 1, k) \o <<r>> \o SubSeq(sorted, k + 1, Len(sorted))

\* mutant: the sort is not stable, an element goes before its equals
InsertUnstable(sorted, r) ==
    LET before == {i \in 1..Len(sorted) : sorted[i].priority > r.priority}
        k == IF before = {} THEN 0
             ELSE CHOOSE i \in before : \A j \in before : j <= i
    IN SubSeq(sorted, 1, k) \o <<r>> \o SubSeq(sorted, k + 1, Len(sorted))

\* Array.prototype.sort with (a, b) => b.priority - a.priority: the sort is
\* stable, an element goes after the elements it does not precede
Insert(sorted, r) ==
    LET before == {i \in 1..Len(sorted) : sorted[i].priority >= r.priority}
        k == IF before = {} THEN 0
             ELSE CHOOSE i \in before : \A j \in before : j <= i
    IN SubSeq(sorted, 1, k) \o <<r>> \o SubSeq(sorted, k + 1, Len(sorted))

RECURSIVE SortFrom(_, _)
SortFrom(sorted, rest) ==
    IF rest = <<>> THEN sorted
    ELSE SortFrom(Insert(sorted, Head(rest)), Tail(rest))

SortByPriority(routes) == SortFrom(<<>>, routes)

\* const sortedRoutes = routes.filter(...).sort(...)
SortedRoutes(routes) == SortByPriority(FilterEnabled(routes))

\* mutant: the caller's array is sorted in place
CallerRoutesInPlace(routes) == SortByPriority(routes)

\* the caller's array after lines 118-120: filter returns a new array, and
\* sort sorts that one
CallerRoutes(routes) == routes

(***************************************************************************)
(* The inputs the model draws from.                                        *)
(***************************************************************************)
S_order == <<"o", "r", "d", "e", "r">>
S_id == <<"i", "d">>
S_priority == <<"p", "r", "i", "o", "r", "i", "t", "y">>
S_vip == <<"v", "i", "p">>
S_high == <<"h", "i", "g", "h">>
S_low == <<"l", "o", "w">>
S_canary == <<"X", "-", "C", "a", "n", "a", "r", "y">>
S_orderPriority == S_order \o <<".">> \o S_priority

PayloadHigh ==
    Obj(S_order :> Obj(S_id :> Num(42) @@ S_priority :> Str(S_high))
        @@ S_vip :> Bool(TRUE))
PayloadLow ==
    Obj(S_order :> Obj(S_priority :> Str(S_low)) @@ S_vip :> Num(0))

InputHigh ==
    [payload |-> PayloadHigh, headers |-> EmptyObj, metadata |-> EmptyObj]
InputLow ==
    [payload |-> PayloadLow,
     headers |-> Obj(S_canary :> Str(<<"1">>)),
     metadata |-> EmptyObj]

Inputs == {InputHigh, InputLow}

Condition(type, field, operator, value, jqExpression) ==
    [type |-> type, field |-> field, operator |-> operator, value |-> value,
     jqExpression |-> jqExpression]

CondHigh ==
    Condition("payload", Str(S_orderPriority), "equals", Str(S_high), Undefined)
CondCanary ==
    Condition("header", Str(S_canary), "exists", Undefined, Undefined)
CondVip ==
    Condition("jq", Undefined, "jq", Undefined, Str(<<".">> \o S_vip))
CondGone ==
    Condition("jq", Undefined, "jq", Undefined, Str(<<".", "g", "o", "n", "e">>))
CondIdExists ==
    Condition("payload", Str(S_order \o <<".">> \o S_id), "exists",
              Undefined, Undefined)

Transform(enabled, jqExpression) ==
    [t |-> "transform", enabled |-> enabled, jqExpression |-> jqExpression]

TransformOrder == Transform(TRUE, <<".">> \o S_order)
TransformBad == Transform(TRUE, <<"i", "n", "v", "a", "l", "i", "d">>)
TransformOff == Transform(FALSE, <<".">>)

RouteIds == <<"route-001", "route-002", "route-003", "route-004">>
RouteNames == <<"High", "Canary", "Default", "Extra">>
Targets == <<"svc-high", "v2", "v1", "svc-extra">>

Route(i, enabled, priority, conditions, conditionOperator, transform) ==
    [id |-> RouteIds[i], name |-> RouteNames[i], enabled |-> enabled,
     priority |-> priority, conditions |-> conditions,
     conditionOperator |-> conditionOperator, transform |-> transform,
     destination |-> [type |-> "endpoint", target |-> Targets[i]]]

\* the rule lists of one call on its own: every list of at most MaxRoutes
\* rules, each with a priority, enabled or not, and one of three shapes
Priorities == {100, 200}

Shapes ==
    {[conditions |-> <<>>, conditionOperator |-> "AND",
      transform |-> TransformOrder],
     [conditions |-> <<>>, conditionOperator |-> "OR",
      transform |-> Undefined],
     [conditions |-> <<CondHigh>>, conditionOperator |-> "AND",
      transform |-> TransformBad]}

RouteAt(i, enabled, priority, shape) ==
    Route(i, enabled, priority, shape.conditions, shape.conditionOperator,
          shape.transform)

AllRouteLists(maxRoutes) ==
    UNION {{[i \in 1..n |-> RouteAt(i, b[i].enabled, b[i].priority, b[i].shape)] :
               b \in [1..n -> [enabled : BOOLEAN, priority : Priorities,
                               shape : Shapes]]} :
           n \in 0..maxRoutes}

\* the rule lists of one call over rules of several conditions, jq
\* conditions among them
LoopShapes ==
    {[conditions |-> <<>>, conditionOperator |-> "AND",
      transform |-> TransformOrder],
     [conditions |-> <<CondVip, CondHigh>>, conditionOperator |-> "AND",
      transform |-> TransformBad],
     [conditions |-> <<CondHigh, CondVip, CondVip>>,
      conditionOperator |-> "OR", transform |-> TransformOff],
     [conditions |-> <<CondGone>>, conditionOperator |-> "OR",
      transform |-> TransformOrder]}

LoopLists ==
    UNION {{[i \in 1..n |-> RouteAt(i, TRUE, b[i].priority, b[i].shape)] :
               b \in [1..n -> [priority : Priorities, shape : LoopShapes]]} :
           n \in 0..MaxRoutes}

\* the rule lists of the overlapping calls
ListEmpty == <<>>
ListCanary ==
    <<Route(3, TRUE, 10, <<>>, "AND", TransformOrder),
      Route(2, TRUE, 100, <<CondCanary>>, "AND", TransformOff)>>
ListHigh ==
    <<Route(1, TRUE, 100, <<CondHigh, CondVip>>, "AND", TransformBad),
      Route(4, FALSE, 200, <<>>, "OR", Undefined)>>

RouteLists == {ListEmpty, ListCanary, ListHigh}

\* the routes of direct evaluateConditions calls
ConditionUniverse == {CondHigh, CondCanary, CondVip, CondIdExists}

ConditionLists ==
    UNION {[1..n -> ConditionUniverse] : n \in 0..MaxConditions}

\* the single conditions of direct evaluateConditions calls: every type,
\* field, operator and value below, and the jq conditions
S_count == <<"c", "o", "u", "n", "t">>
S_note == <<"n", "o", "t", "e">>
S_gone == <<"g", "o", "n", "e">>
S_off == <<"o", "f", "f">>
S_tags == <<"t", "a", "g", "s">>
S_extra == <<"e", "x", "t", "r", "a">>
S_missing == <<"m", "i", "s", "s", "i", "n", "g">>
S_undefined == <<"u", "n", "d", "e", "f", "i", "n", "e", "d">>
S_length == <<"l", "e", "n", "g", "t", "h">>
S_a == <<"a">>
S_b == <<"b">>
S_ab == <<"a", ".", "b">>
S_constructor == <<"c", "o", "n", "s", "t", "r", "u", "c", "t", "o", "r">>

Dotted(a, b) == a \o <<".">> \o b

PayloadFull ==
    Obj(S_order :> Obj(S_id :> Num(42) @@ S_priority :> Str(S_high))
        @@ S_vip :> Bool(TRUE) @@ S_count :> Num(0) @@ S_note :> Str(<<>>)
        @@ S_gone :> Null @@ S_off :> Bool(FALSE) @@ S_tags :> Arr(<<>>)
        @@ S_extra :> EmptyObj @@ S_a :> Obj(S_b :> Str(S_high)))

InputFull ==
    [payload |-> PayloadFull,
     headers |-> Obj(S_canary :> Str(<<"1">>) @@ S_ab :> Str(S_high)
                     @@ S_note :> Str(<<>>)),
     metadata |-> Obj(S_a :> Obj(S_b :> Str(S_high)) @@ S_count :> Num(0)
                      @@ S_note :> Str(<<>>) @@ S_gone :> Null
                      @@ S_off :> Bool(FALSE))]

TestInputs == {InputHigh, InputLow, InputFull}

Types == {"payload", "header", "metadata", "query"}

Operators == {"equals", "contains", "regex", "exists", "startsWith"}

Fields ==
    {Undefined, Str(<<>>), Str(S_orderPriority), Str(Dotted(S_order, S_id)),
     Str(Dotted(S_order, S_missing)), Str(Dotted(S_missing, S_id)),
     Str(Dotted(S_orderPriority, S_length)), Str(S_missing), Str(S_count),
     Str(S_note), Str(S_gone), Str(S_off), Str(S_ab), Str(S_canary),
     Str(S_constructor)}

Values ==
    {Undefined, Null, Num(0), Str(<<>>), Str(S_undefined), Str(S_high),
     Str(<<"^", "h", ".", "g", "h", "$">>), Str(<<"(">>)}

JqExpressions ==
    {Undefined, Str(<<>>), Str(<<".">>), Str(<<".">> \o S_vip),
     Str(<<".">> \o S_count), Str(<<".">> \o S_note), Str(<<".">> \o S_gone),
     Str(<<".">> \o S_off), Str(<<".">> \o S_tags), Str(<<".">> \o S_extra),
     Str(<<".">> \o S_missing),
     Str(<<".">> \o Dotted(S_orderPriority, S_id)),
     Str(<<"i", "n", "v", "a", "l", "i", "d">>)}

FieldConditions ==
    {Condition(type, field, operator, value, Undefined) :
        type \in Types, field \in Fields, operator \in Operators,
        value \in Values}

JqConditions ==
    {Condition("jq", Undefined, "jq", Undefined, jqExpression) :
        jqExpression \in JqExpressions}

\* the rule lists of the calls on one condition: a rule of one condition,
\* alone or ahead of a rule without conditions
OneConditionRule(condition, operator) ==
    Route(1, TRUE, 200, <<condition>>, operator, TransformOff)

DefaultRule == Route(3, TRUE, 10, <<>>, "AND", TransformOrder)

\* the conditions whose type evaluateCondition does not know, or whose
\* operator compareValues does not know
UnknownConditions ==
    {condition \in FieldConditions :
        \/ condition.type = "query"
        \/ condition.operator = "startsWith"}

OneConditionLists ==
    {<<OneConditionRule(condition, operator)>> :
        condition \in JqConditions \cup UnknownConditions,
        operator \in {"AND", "OR"}}
    \cup {<<OneConditionRule(condition, operator), DefaultRule>> :
             condition \in JqConditions \cup UnknownConditions,
             operator \in {"AND", "OR"}}

(***************************************************************************)
(* store/simulationStore.ts                                                *)
(***************************************************************************)
VARIABLES
    simulations,        \* the store's simulations, newest first
    currentSimulation,  \* the store's currentSimulation, or Null
    isRunning,          \* the store's isRunning
    jqInitialized,      \* JQService.initialized
    jqModule,           \* whether importing jq-web works: "loaded" or "broken"
    now,                \* performance.now()
    call,               \* the startSimulation calls: call[r] is the r-th
    evaluation,         \* the last direct evaluateConditions call, or Null
    jqLoads,            \* how many times jqModule.default() was called
    initCalls,          \* the direct calls of JQService.init and transform
    routeStore,         \* the route store: routes, selectedRoute, isLoading,
                        \* error
    localStorage        \* the item under ROUTES_KEY, or Null

vars ==
    <<simulations, currentSimulation, isRunning, jqInitialized, jqModule, now,
      call, evaluation, jqLoads, initCalls, routeStore, localStorage>>

Absent == "<absent>"

HistoryLimit == 10

Calls == 1..MaxCalls

IdleCall ==
    [pc |-> "idle", input |-> Null, routes |-> <<>>, sortedRoutes |-> <<>>,
     index |-> 0, simulation |-> Null, startTime |-> 0, matchStart |-> 0,
     transformStart |-> 0, transformCalls |-> 0, runs |-> 0, log |-> <<>>,
     passed |-> Null]

\* a caller of JQService.init or transform that has not called
IdleInit == [pc |-> "idle", method |-> "init"]

InitCallers == 1..MaxInits

\* useRouteStore's initial state, lines 24-27
InitRouteStore ==
    [routes |-> <<>>, selectedRoute |-> Null, isLoading |-> FALSE,
     error |-> Null,
     last |-> "create"]

InitStore ==
    /\ simulations = <<>>
    /\ currentSimulation = Null
    /\ isRunning = FALSE
    /\ jqInitialized = FALSE
    /\ now = 0
    /\ call = [r \in Calls |-> IdleCall]
    /\ evaluation = Null
    /\ jqLoads = 0
    /\ initCalls = [p \in InitCallers |-> IdleInit]
    /\ routeStore = InitRouteStore

Init ==
    /\ InitStore
    /\ jqModule \in {"loaded", "broken"}
    /\ localStorage = Null

Take(s, n) == SubSeq(s, 1, IF Len(s) < n THEN Len(s) ELSE n)

\* the calls of jqModule.default() that a step makes when it awaits init
\* together with its resumption: one when the service becomes initialised
Loaded(before, after) == IF after /\ ~before THEN 1 ELSE 0

\* lines 22-46: up to the await of matchRoute, whose filter and sort run
\* before its first await; uuidv4() gives every run of every caller its own id
StartSimulation(r, input, routes) ==
    /\ call[r].pc = "idle"
    /\ \A q \in Calls : q < r => call[q].pc # "idle"
    /\ isRunning' = TRUE
    /\ call' = [call EXCEPT ![r] =
          [pc |-> "matching", input |-> input,
           routes |-> CallerRoutes(routes),
           sortedRoutes |-> SortedRoutes(routes), index |-> 1,
           simulation |->
              [id |-> r + MaxCalls * call[r].runs, timestamp |-> now,
               input |-> input, trace |-> <<>>,
               output |-> [matchedRoute |-> Absent, destination |-> Absent,
                           transformedPayload |-> Undefined,
                           actions |-> <<>>, errors |-> <<>>],
               metrics |-> [totalDuration |-> 0, matchingDuration |-> 0,
                            transformDuration |-> 0]],
           startTime |-> now, matchStart |-> now, transformStart |-> 0,
           transformCalls |-> 0, runs |-> call[r].runs + 1, log |-> <<>>,
           passed |-> [input |-> input, routes |-> routes]]]
    /\ UNCHANGED <<simulations, currentSimulation, jqInitialized, jqLoads, jqModule, initCalls, routeStore, localStorage,
                   now, evaluation>>

\* lines 49-65: the route step of the trace and the match in the output
RouteStep(simulation, matchedRoute, matchDuration) ==
    LET matched == matchedRoute # Null
        step == [step |-> 1, type |-> "route",
                 description |->
                    IF matched
                    THEN [text |-> "Matched route: ", name |-> matchedRoute.name]
                    ELSE [text |-> "No matching route found", name |-> Absent],
                 input |-> simulation.input.payload,
                 output |-> IF matched THEN matchedRoute.id ELSE Absent,
                 duration |-> matchDuration, success |-> matched,
                 error |-> Absent]
    IN [simulation EXCEPT
          !.trace = Append(@, step),
          !.metrics.matchingDuration = matchDuration,
          !.output.matchedRoute = IF matched THEN matchedRoute.id ELSE @,
          !.output.destination =
              IF matched THEN matchedRoute.destination.target ELSE @]

\* mutant: no warning is recorded
NoMatchSilent(simulation) == simulation

\* lines 100-106
NoMatch(simulation) ==
    [simulation EXCEPT !.output.errors =
        Append(@, [severity |-> "warning",
                   message |-> "No matching route found for the given input",
                   context |-> "Route Matching", suggestion |-> Absent])]

\* mutant: a failed transform lets the payload through and records nothing
TransformOutcomeSkip(simulation, transformResult, transformDuration) ==
    LET step == [step |-> 2, type |-> "transform",
                 description |-> [text |-> "Applied JQ transformation",
                                  name |-> "<absent>"],
                 input |-> simulation.input.payload,
                 output |-> transformResult.output,
                 duration |-> transformDuration,
                 success |-> transformResult.success,
                 error |-> IF transformResult.success THEN "<absent>"
                           ELSE transformResult.error]
    IN [simulation EXCEPT
          !.trace = Append(@, step),
          !.metrics.transformDuration = transformDuration,
          !.output.transformedPayload =
              IF transformResult.success THEN transformResult.output
              ELSE simulation.input.payload]

\* mutant: the input payload is stored in place of the transform's output
TransformOutcomeInput(simulation, transformResult, transformDuration) ==
    LET step == [step |-> 2, type |-> "transform",
                 description |-> [text |-> "Applied JQ transformation",
                                  name |-> "<absent>"],
                 input |-> simulation.input.payload,
                 output |-> transformResult.output,
                 duration |-> transformDuration,
                 success |-> transformResult.success,
                 error |-> IF transformResult.success THEN "<absent>"
                           ELSE transformResult.error]
        traced == [simulation EXCEPT
                      !.trace = Append(@, step),
                      !.metrics.transformDuration = transformDuration]
    IN IF transformResult.success
       THEN [traced EXCEPT
                !.output.transformedPayload = simulation.input.payload]
       ELSE [traced EXCEPT !.output.errors =
                Append(@, [severity |-> "error",
                           message |-> IF transformResult.error = ""
                                       THEN "Transform failed"
                                       ELSE transformResult.error,
                           context |-> "JQ Transformation",
                           suggestion |->
                              IF transformResult.suggestions = <<>>
                              THEN "<absent>"
                              ELSE transformResult.suggestions[1]])]

\* lines 76-98: the transform step of the trace and the transform's outcome
TransformOutcome(simulation, transformResult, transformDuration) ==
    LET step == [step |-> 2, type |-> "transform",
                 description |-> [text |-> "Applied JQ transformation",
                                  name |-> Absent],
                 input |-> simulation.input.payload,
                 output |-> transformResult.output,
                 duration |-> transformDuration,
                 success |-> transformResult.success,
                 error |-> IF transformResult.success THEN Absent
                           ELSE transformResult.error]
        traced == [simulation EXCEPT
                      !.trace = Append(@, step),
                      !.metrics.transformDuration = transformDuration]
    IN IF transformResult.success
       THEN [traced EXCEPT
                !.output.transformedPayload = transformResult.output]
       ELSE [traced EXCEPT !.output.errors =
                Append(@, [severity |-> "error",
                           message |-> IF transformResult.error = ""
                                       THEN "Transform failed"
                                       ELSE transformResult.error,
                           context |-> "JQ Transformation",
                           suggestion |->
                              IF transformResult.suggestions = <<>>
                              THEN Absent
                              ELSE transformResult.suggestions[1]])]

\* mutant: the list is not cut
CompleteKeepsAll(r, simulation, startTime, time, log) ==
    LET done == [simulation EXCEPT !.metrics.totalDuration = time - startTime]
    IN /\ simulations' = <<done>> \o simulations
       /\ currentSimulation' = done
       /\ isRunning' = FALSE
       /\ call' = [call EXCEPT ![r].pc = "done", ![r].simulation = done,
                               ![r].log = log]

\* lines 108-115; log is what the call has done up to here
Complete(r, simulation, startTime, time, log) ==
    LET done == [simulation EXCEPT !.metrics.totalDuration = time - startTime]
    IN /\ simulations' = Take(<<done>> \o simulations, HistoryLimit)
       /\ currentSimulation' = done
       /\ isRunning' = FALSE
       /\ call' = [call EXCEPT ![r].pc = "done", ![r].simulation = done,
                               ![r].log = log]

\* mutant: the catch block leaves isRunning as it is
CatchKeepsRunning(r, simulation, message) ==
    LET failed == [simulation EXCEPT !.output.errors =
                      Append(@, [severity |-> "error",
                                 message |-> IF message = ""
                                             THEN "Simulation failed"
                                             ELSE message,
                                 context |-> "Simulation",
                                 suggestion |-> "<absent>"])]
    IN /\ currentSimulation' = failed
       /\ call' = [call EXCEPT ![r].pc = "done", ![r].simulation = failed]
       /\ UNCHANGED <<simulations, isRunning>>

\* lines 116-127
Catch(r, simulation, message) ==
    LET failed == [simulation EXCEPT !.output.errors =
                      Append(@, [severity |-> "error",
                                 message |-> IF message = ""
                                             THEN "Simulation failed"
                                             ELSE message,
                                 context |-> "Simulation",
                                 suggestion |-> Absent])]
    IN /\ currentSimulation' = failed
       /\ isRunning' = FALSE
       /\ call' = [call EXCEPT ![r].pc = "done", ![r].simulation = failed]
       /\ UNCHANGED simulations

\* one turn of the loop of matchRoute (lines 122-128 of the matcher), and
\* when the loop ends lines 47-74 or 47-115 of the store
MatchStep(r, d) ==
    LET c == call[r]
        more == c.index <= Len(c.sortedRoutes)
        route == c.sortedRoutes[c.index]
        log == IF more THEN c.log \o LoopTurn(c.sortedRoutes, c.index)
               ELSE c.log
    IN /\ c.pc = "matching"
       /\ now + d <= MaxClock
       /\ now' = now + d
       /\ jqInitialized' =
             IF more /\ CallsJq(route) THEN JqInit(jqInitialized, jqModule)
             ELSE jqInitialized
       /\ jqLoads' = jqLoads + Loaded(jqInitialized, jqInitialized')
       /\ IF more /\ ~evaluateConditions(route, c.input, jqInitialized, jqModule)
          THEN /\ call' = [call EXCEPT ![r].index = @ + 1, ![r].log = log]
               /\ UNCHANGED <<simulations, currentSimulation, isRunning>>
          ELSE LET matchedRoute == IF more THEN route ELSE Null
                   routed == RouteStep(c.simulation, matchedRoute,
                                       now' - c.matchStart)
               IN IF matchedRoute = Null
                  THEN Complete(r, NoMatch(routed), c.startTime, now', log)
                  ELSE IF matchedRoute.transform.t # "undefined"
                          /\ matchedRoute.transform.enabled
                       THEN /\ call' = [call EXCEPT
                                  ![r].pc = "transforming",
                                  ![r].simulation = routed,
                                  ![r].transformStart = now',
                                  ![r].transformCalls = @ + 1,
                                  ![r].log =
                                     Append(log, Transformed(c.index))]
                            /\ UNCHANGED <<simulations, currentSimulation,
                                           isRunning>>
                       ELSE Complete(r, routed, c.startTime, now', log)
       /\ UNCHANGED <<jqModule, initCalls, routeStore, localStorage, evaluation>>

\* the await of jqService.transform (lines 70-73) and what follows it
TransformStep(r, d) ==
    LET c == call[r]
        matchedRoute == c.sortedRoutes[c.index]
        transformResult ==
            JqTransform(jqInitialized, jqModule,
                        matchedRoute.transform.jqExpression, c.input.payload)
    IN /\ c.pc = "transforming"
       /\ now + d <= MaxClock
       /\ now' = now + d
       /\ jqInitialized' = JqInit(jqInitialized, jqModule)
       /\ jqLoads' = jqLoads + Loaded(jqInitialized, jqInitialized')
       /\ IF transformResult.thrown
          THEN Catch(r, c.simulation, transformResult.message)
          ELSE Complete(r, TransformOutcome(c.simulation, transformResult,
                                            now' - c.transformStart),
                        c.startTime, now', c.log)
       /\ UNCHANGED <<jqModule, initCalls, routeStore, localStorage, evaluation>>

\* lines 130-132
ClearSimulations ==
    /\ simulations' = <<>>
    /\ currentSimulation' = Null
    /\ UNCHANGED <<isRunning, jqInitialized, jqLoads, jqModule, initCalls, routeStore, localStorage, now, call, evaluation>>

\* lines 134-139
SelectSimulation(id) ==
    LET found == {i \in 1..Len(simulations) : simulations[i].id = id}
    IN /\ currentSimulation' =
             IF found = {} THEN currentSimulation
             ELSE simulations[CHOOSE i \in found : \A j \in found : i <= j]
       /\ UNCHANGED <<simulations, isRunning, jqInitialized, jqLoads, jqModule, initCalls, routeStore, localStorage, now,
                      call, evaluation>>

\* the promise of the r-th caller's call has resolved and the caller is free
\* to call startSimulation again
NextCall(r) ==
    /\ call[r].pc = "done"
    /\ call[r].runs < MaxRuns
    /\ call' = [call EXCEPT ![r] = [IdleCall EXCEPT !.runs = call[r].runs]]
    /\ UNCHANGED <<simulations, currentSimulation, isRunning, jqInitialized, jqLoads,
                   jqModule, initCalls, routeStore, localStorage, now, evaluation>>

\* a direct call of RouteMatcher.evaluateConditions
EvaluateConditionsCall(route, input) ==
    /\ evaluation' =
          [route |-> route, input |-> input,
           result |-> evaluateConditions(route, input, jqInitialized, jqModule)]
    /\ jqInitialized' =
          IF CallsJq(route) THEN JqInit(jqInitialized, jqModule)
          ELSE jqInitialized
    /\ jqLoads' = jqLoads + Loaded(jqInitialized, jqInitialized')
    /\ UNCHANGED <<simulations, currentSimulation, isRunning, jqModule, initCalls, routeStore, localStorage, now,
                   call>>

\* jqEngine.ts lines 7-8 and 21-24: a caller calls init, or calls transform,
\* which awaits init when the service is not initialised; on an initialised
\* service init returns at once and transform does not call it
CallInit(p, method) ==
    /\ initCalls[p].pc = "idle"
    /\ initCalls' = [initCalls EXCEPT ![p] =
          [pc |-> IF jqInitialized THEN "done" ELSE "importing",
           method |-> method]]
    /\ UNCHANGED <<simulations, currentSimulation, isRunning, jqInitialized,
                   jqLoads, jqModule, routeStore, localStorage, now, call,
                   evaluation>>

\* lines 12-13 and 15-18: the import has settled; the call throws when it
\* failed, and calls jqModule.default() otherwise
ImportStep(p) ==
    /\ initCalls[p].pc = "importing"
    /\ IF jqModule = "broken"
       THEN /\ initCalls' = [initCalls EXCEPT ![p].pc = "failed"]
            /\ UNCHANGED jqLoads
       ELSE /\ initCalls' = [initCalls EXCEPT ![p].pc = "instantiating"]
            /\ jqLoads' = jqLoads + 1
    /\ UNCHANGED <<simulations, currentSimulation, isRunning, jqInitialized,
                   jqModule, routeStore, localStorage, now, call, evaluation>>

\* lines 13-14: jqModule.default() has resolved
InstantiateStep(p) ==
    /\ initCalls[p].pc = "instantiating"
    /\ jqInitialized' = TRUE
    /\ initCalls' = [initCalls EXCEPT ![p].pc = "done"]
    /\ UNCHANGED <<simulations, currentSimulation, isRunning, jqLoads,
                   jqModule, routeStore, localStorage, now, call, evaluation>>

\* the caller has its answer and may call again
ReturnInit(p) ==
    /\ initCalls[p].pc \in {"done", "failed"}
    /\ initCalls' = [initCalls EXCEPT ![p] = IdleInit]
    /\ UNCHANGED <<simulations, currentSimulation, isRunning, jqInitialized,
                   jqLoads, jqModule, routeStore, localStorage, now, call,
                   evaluation>>

\* overlapping calls on one store; the clock stands still
Next ==
    \/ \E r \in Calls, input \in Inputs, routes \in RouteLists :
          StartSimulation(r, input, routes)
    \/ \E r \in Calls : MatchStep(r, 0)
    \/ \E r \in Calls : TransformStep(r, 0)
    \/ ClearSimulations
    \/ \E id \in 0..MaxCalls : SelectSimulation(id)

Spec == Init /\ [][Next]_vars

\* the event loop runs a continuation whose promise has settled, and
\* jqService.transform settles: some call in flight is resumed
Resume == \E r \in Calls : MatchStep(r, 0) \/ TransformStep(r, 0)

\* the calls alone: clearing and selecting touch neither a call nor isRunning
NextCalls ==
    \/ \E r \in Calls, input \in Inputs, routes \in RouteLists :
          StartSimulation(r, input, routes)
    \/ Resume

FairSpec == Init /\ [][NextCalls]_vars /\ WF_vars(Resume)

\* one call after the other while performance.now() advances
Ticks == {0, 1}

NextTimed ==
    \/ /\ \A q \in Calls : call[q].pc \in {"idle", "done"}
       /\ \E r \in Calls, input \in Inputs, routes \in RouteLists :
             StartSimulation(r, input, routes)
    \/ \E r \in Calls, d \in Ticks : MatchStep(r, d)
    \/ \E r \in Calls, d \in Ticks : TransformStep(r, d)

SpecTimed == Init /\ [][NextTimed]_vars

\* one call on its own, over every rule list
InitMatch ==
    /\ InitStore
    /\ jqModule = "loaded"
    /\ localStorage = Null

NextMatch ==
    \/ /\ call[1].pc = "idle"
       /\ \E input \in Inputs, routes \in AllRouteLists(MaxRoutes) :
             StartSimulation(1, input, routes)
    \/ MatchStep(1, 0)
    \/ TransformStep(1, 0)

SpecMatch == InitMatch /\ [][NextMatch]_vars

\* one direct call of evaluateConditions, over every condition list, before
\* or after the application has initialised the jq service
InitEvaluate ==
    /\ InitStore
    /\ jqModule \in {"loaded", "broken"}
    /\ localStorage = Null

NextEvaluate ==
    \/ /\ evaluation = Null
       /\ ~jqInitialized
       /\ jqInitialized' = JqInit(jqInitialized, jqModule)
       /\ jqInitialized'
       /\ jqLoads' = jqLoads + 1
       /\ UNCHANGED <<simulations, currentSimulation, isRunning, jqModule, initCalls, routeStore, localStorage,
                      now, call, evaluation>>
    \/ /\ evaluation = Null
       /\ \E conditions \in ConditionLists, operator \in {"AND", "OR"},
             input \in Inputs :
              EvaluateConditionsCall(
                  Route(1, TRUE, 100, conditions, operator, Undefined), input)

SpecEvaluate == InitEvaluate /\ [][NextEvaluate]_vars

\* overlapping calls of init and transform on one service
NextInit ==
    \/ \E p \in InitCallers, method \in {"init", "transform"} :
          CallInit(p, method)
    \/ \E p \in InitCallers : ImportStep(p)
    \/ \E p \in InitCallers : InstantiateStep(p)
    \/ \E p \in InitCallers : ReturnInit(p)

SpecInit == Init /\ [][NextInit]_vars

\* one call on its own, over the rule lists of one condition
NextRule ==
    \/ /\ call[1].pc = "idle"
       /\ \E input \in TestInputs, routes \in OneConditionLists :
             StartSimulation(1, input, routes)
    \/ MatchStep(1, 0)
    \/ TransformStep(1, 0)

SpecRule == Init /\ [][NextRule]_vars

\* one call on its own, over rules of several conditions
NextLoop ==
    \/ /\ call[1].pc = "idle"
       /\ \E input \in Inputs, routes \in LoopLists :
             StartSimulation(1, input, routes)
    \/ MatchStep(1, 0)
    \/ TransformStep(1, 0)

SpecLoop == Init /\ [][NextLoop]_vars

\* one caller calls again and again, on one input
HistoryLists == {ListEmpty, ListCanary}

NextHistory ==
    \/ \E routes \in HistoryLists : StartSimulation(1, InputHigh, routes)
    \/ MatchStep(1, 0)
    \/ TransformStep(1, 0)
    \/ NextCall(1)

SpecHistory == Init /\ [][NextHistory]_vars

\* one direct call of evaluateConditions on a rule of one condition
NextCondition ==
    \/ /\ evaluation = Null
       /\ ~jqInitialized
       /\ jqInitialized' = JqInit(jqInitialized, jqModule)
       /\ jqInitialized'
       /\ jqLoads' = jqLoads + 1
       /\ UNCHANGED <<simulations, currentSimulation, isRunning, jqModule, initCalls, routeStore, localStorage,
                      now, call, evaluation>>
    \/ /\ evaluation = Null
       /\ \E condition \in FieldConditions \cup JqConditions,
             input \in TestInputs :
              EvaluateConditionsCall(
                  Route(1, TRUE, 100, <<condition>>, "AND", Undefined), input)

SpecCondition == InitEvaluate /\ [][NextCondition]_vars

(***************************************************************************)
(* The claims.                                                             *)
(***************************************************************************)
\* the call has a result: its matching has ended
Matched(c) == c.pc \in {"transforming", "done"}

Selected(c) == c.simulation.output.matchedRoute

\* the context satisfies the rule's condition set
Satisfied(route, input) == evaluateConditions(route, input, TRUE, jqModule)

Candidate(route, input) == route.enabled /\ Satisfied(route, input)

\* C1: a call never selects a rule when an enabled rule of higher priority
\* is satisfied too, and it selects a rule when an enabled rule is satisfied,
\* whatever the order of the list.
C1_PriorityOrdering ==
    LET c == call[1]
    IN Matched(c) =>
          /\ \A i, j \in 1..Len(c.routes) :
                (/\ Selected(c) = c.routes[i].id
                 /\ Candidate(c.routes[j], c.input))
                => c.routes[j].priority <= c.routes[i].priority
          /\ (\E j \in 1..Len(c.routes) : Candidate(c.routes[j], c.input))
             => \E i \in 1..Len(c.routes) :
                   /\ Selected(c) = c.routes[i].id
                   /\ Candidate(c.routes[i], c.input)

\* a rule of lower priority stands before a rule of higher priority, both
\* are enabled and satisfied, and the call has selected the second
C1_Witness ==
    LET c == call[1]
    IN /\ Matched(c)
       /\ \E i, j \in 1..Len(c.routes) :
             /\ i < j
             /\ c.routes[i].priority < c.routes[j].priority
             /\ Candidate(c.routes[i], c.input)
             /\ Candidate(c.routes[j], c.input)
             /\ Selected(c) = c.routes[j].id

\* C2: among the enabled and satisfied rules of the selected rule's
\* priority, the selected rule is the earliest of the input list.
C2_TieBreakStability ==
    LET c == call[1]
    IN Matched(c) =>
          \A i, j \in 1..Len(c.routes) :
             (/\ Selected(c) = c.routes[i].id
              /\ Candidate(c.routes[j], c.input)
              /\ c.routes[j].priority = c.routes[i].priority)
             => i <= j

\* three enabled and satisfied rules of one priority, the first is selected
C2_Witness ==
    LET c == call[1]
    IN /\ Matched(c)
       /\ Len(c.routes) >= 3
       /\ \A i \in 1..Len(c.routes) :
             /\ Candidate(c.routes[i], c.input)
             /\ c.routes[i].priority = c.routes[1].priority
       /\ Selected(c) = c.routes[1].id

\* C3: a disabled rule is not the selected rule and no step of the trace
\* names it, whatever its priority and its conditions.
C3_DisabledExclusion ==
    LET c == call[1]
    IN c.pc # "idle" =>
          \A i \in 1..Len(c.routes) :
             ~c.routes[i].enabled =>
                /\ Selected(c) # c.routes[i].id
                /\ \A k \in 1..Len(c.simulation.trace) :
                      LET step == c.simulation.trace[k]
                      IN /\ step.description.name # c.routes[i].name
                         /\ step.type = "route" => step.output # c.routes[i].id

\* a disabled rule of the highest priority, satisfied, in a finished call
\* that selected another rule
C3_Witness ==
    LET c == call[1]
    IN /\ c.pc = "done"
       /\ Selected(c) # Absent
       /\ \E i \in 1..Len(c.routes) :
             /\ ~c.routes[i].enabled
             /\ Satisfied(c.routes[i], c.input)
             /\ \A j \in 1..Len(c.routes) :
                   j # i => c.routes[j].priority < c.routes[i].priority

\* rule j is examined before rule i
Ahead(routes, j, i) ==
    \/ routes[j].priority > routes[i].priority
    \/ routes[j].priority = routes[i].priority /\ j < i

\* C4: an enabled rule without conditions is selected when no enabled rule
\* ahead of it is satisfied, under AND and under OR.
C4_EmptyConditionsMatch ==
    LET c == call[1]
    IN Matched(c) =>
          \A i \in 1..Len(c.routes) :
             (/\ c.routes[i].enabled
              /\ c.routes[i].conditions = <<>>
              /\ \A j \in 1..Len(c.routes) :
                    Ahead(c.routes, j, i) => ~Candidate(c.routes[j], c.input))
             => Selected(c) = c.routes[i].id

\* a rule without conditions under OR is selected behind an enabled rule of
\* higher priority that is not satisfied
C4_Witness ==
    LET c == call[1]
    IN /\ Matched(c)
       /\ \E i, j \in 1..Len(c.routes) :
             /\ c.routes[i].conditions = <<>>
             /\ c.routes[i].conditionOperator = "OR"
             /\ Selected(c) = c.routes[i].id
             /\ c.routes[j].enabled
             /\ c.routes[j].priority > c.routes[i].priority
             /\ ~Satisfied(c.routes[j], c.input)

\* the truth values the conditions of the evaluated route take one by one
Outcomes(e) ==
    {evaluateCondition(e.route.conditions[i], e.input, jqInitialized, jqModule) :
        i \in 1..Len(e.route.conditions)}

\* C5: with conditions, evaluateConditions is true under AND iff no condition
\* is false and under OR iff some condition is true: the result depends on
\* the set of the conditions' outcomes and not on their order.
C5_AndOrCombination ==
    (evaluation # Null /\ evaluation.route.conditions # <<>>) =>
        evaluation.result =
            IF evaluation.route.conditionOperator = "AND"
            THEN FALSE \notin Outcomes(evaluation)
            ELSE TRUE \in Outcomes(evaluation)

\* a false condition before a true one, under OR: the result is true
C5_Witness ==
    /\ evaluation # Null
    /\ Len(evaluation.route.conditions) >= 2
    /\ evaluation.route.conditionOperator = "OR"
    /\ ~evaluateCondition(evaluation.route.conditions[1], evaluation.input,
                          jqInitialized, jqModule)
    /\ evaluateCondition(evaluation.route.conditions[2], evaluation.input,
                         jqInitialized, jqModule)
    /\ evaluation.result

\* the rule the call selected
SelectedRoute(c) == c.sortedRoutes[c.index]

\* what the transform capability answers for the selected rule of the call
Answer(c) ==
    JqTransform(jqInitialized, jqModule,
                SelectedRoute(c).transform.jqExpression, c.input.payload)

\* the call is over, a rule was selected, its transform is enabled and the
\* capability reported a failure
TransformFailed(c) ==
    /\ c.pc = "done"
    /\ c.transformCalls > 0
    /\ ~Answer(c).thrown
    /\ ~Answer(c).success

HasError(simulation, severity, message) ==
    \E k \in 1..Len(simulation.output.errors) :
        /\ simulation.output.errors[k].severity = severity
        /\ simulation.output.errors[k].message = message

C7_NoMatchOutcome ==
    LET c == call[1]
    IN (/\ c.pc = "done"
        /\ \A i \in 1..Len(c.routes) : ~Candidate(c.routes[i], c.input))
       => /\ Selected(c) = Absent
          /\ c.simulation.output.destination = Absent
          /\ c.simulation.output.transformedPayload = Undefined
          /\ c.transformCalls = 0
          /\ Len(c.simulation.trace) = 1
          /\ Len(c.simulation.output.errors) = 1
          /\ c.simulation.output.errors[1].severity = "warning"
          /\ c.simulation.output.errors[1].message =
                "No matching route found for the given input"

\* a finished call over enabled rules none of which is satisfied
C7_Witness ==
    LET c == call[1]
    IN /\ c.pc = "done"
       /\ Len(c.routes) >= 2
       /\ \E i \in 1..Len(c.routes) : c.routes[i].enabled
       /\ \A i \in 1..Len(c.routes) : ~Candidate(c.routes[i], c.input)
       /\ Selected(c) = Absent

\* C8: two finished calls with the same rule list and the same input have
\* the same matched rule, transformed payload and destination, whatever ran
\* before or between them.
C8_Determinism ==
    \A r, q \in Calls :
        (/\ call[r].pc = "done"
         /\ call[q].pc = "done"
         /\ call[r].routes = call[q].routes
         /\ call[r].input = call[q].input)
        => /\ Selected(call[r]) = Selected(call[q])
           /\ call[r].simulation.output.transformedPayload =
                 call[q].simulation.output.transformedPayload
           /\ call[r].simulation.output.destination =
                 call[q].simulation.output.destination

\* two finished calls with the same arguments and a transformed payload; the
\* first started on a jq service that was not initialised
C8_Witness ==
    \E r, q \in Calls :
        /\ r < q
        /\ call[r].pc = "done"
        /\ call[q].pc = "done"
        /\ call[r].routes = call[q].routes
        /\ call[r].input = call[q].input
        /\ call[q].simulation.output.transformedPayload # Undefined

\* the capability threw while the conditions of the call's first rule were
\* evaluated
ConditionThrew(c) ==
    /\ c.routes # <<>>
    /\ c.routes[1].enabled
    /\ c.routes[1].conditions # <<>>
    /\ c.routes[1].conditions[1].type = "jq"
    /\ Truthy(c.routes[1].conditions[1].jqExpression)
    /\ JqTransform(jqInitialized, jqModule,
                   c.routes[1].conditions[1].jqExpression.s,
                   c.input.payload).thrown

\* the capability threw while the selected rule's transform ran
TransformThrew(c) ==
    /\ c.transformCalls > 0
    /\ Answer(c).thrown

\* C9 as claimed: a call ends with its simulation as currentSimulation, and
\* when the capability threw during the call, for a condition or for the
\* transform, the simulation's errors hold an entry with the thrown message.
C9_EveryFaultRecorded ==
    LET c == call[1]
    IN c.pc = "done" =>
          /\ currentSimulation = c.simulation
          /\ (ConditionThrew(c) \/ TransformThrew(c))
             => \E k \in 1..Len(c.simulation.output.errors) :
                   c.simulation.output.errors[k].message =
                      "Failed to load jq-web"

\* C10: a call that has started ends, and isRunning is false when it ends.
\* A call that is done stays done, so that every started call ends iff again
\* and again no call is in flight.
C10_EveryRunFinishes ==
    /\ []<>(\A r \in Calls : call[r].pc \in {"idle", "done"})
    /\ [][\A r \in Calls :
             /\ call[r].pc = "done" => call'[r].pc = "done"
             /\ (call[r].pc # "done" /\ call'[r].pc = "done") => ~isRunning']_vars

\* a call ended after its transform threw, another ended without a match,
\* and isRunning is false
C10_Witness ==
    \E r, q \in Calls :
        /\ call[r].pc = "done"
        /\ call[r].transformCalls > 0
        /\ Answer(call[r]).thrown
        /\ call[q].pc = "done"
        /\ Selected(call[q]) = Absent
        /\ ~isRunning

\* the number of rules the call examined: the enabled rules up to the
\* selected one, or all of them
Examined(c) ==
    IF Selected(c) = Absent THEN Len(SortedRoutes(c.routes)) ELSE c.index

\* C11 as claimed: the trace of a finished call holds one condition step for
\* each rule examined, in evaluation order, with the rule's name and the
\* combined result, and then the route step.
C11_ConditionSteps ==
    LET c == call[1]
        sorted == SortedRoutes(c.routes)
    IN c.pc = "done" =>
          /\ Len(c.simulation.trace) >= Examined(c) + 1
          /\ \A k \in 1..Examined(c) :
                /\ c.simulation.trace[k].type = "condition"
                /\ c.simulation.trace[k].description.name = sorted[k].name
                /\ c.simulation.trace[k].success =
                      Satisfied(sorted[k], c.input)
          /\ c.simulation.trace[Examined(c) + 1].type = "route"

\* a rule was selected, its transform is enabled and the capability returned
\* success
TransformSucceeded(c) ==
    /\ Selected(c) # Absent
    /\ SelectedRoute(c).transform.t # "undefined"
    /\ SelectedRoute(c).transform.enabled
    /\ ~Answer(c).thrown
    /\ Answer(c).success

\* C12: the result of a finished call has a transformedPayload iff a rule
\* was selected, its transform is enabled and the capability returned
\* success, and then it is the value the capability returned.
C12_TransformedPayloadIff ==
    \A r \in Calls :
        call[r].pc = "done" =>
            /\ (call[r].simulation.output.transformedPayload # Undefined)
               <=> TransformSucceeded(call[r])
            /\ TransformSucceeded(call[r]) =>
                  call[r].simulation.output.transformedPayload =
                     Answer(call[r]).output

\* a finished call whose transformed payload is not its input payload
C12_Witness ==
    \E r \in Calls :
        /\ call[r].pc = "done"
        /\ TransformSucceeded(call[r])
        /\ call[r].simulation.output.transformedPayload # Undefined
        /\ call[r].simulation.output.transformedPayload #
              call[r].input.payload

\* C13 as claimed: in the result of every finished call, the fault path
\* included, totalDuration is at least matchingDuration + transformDuration,
\* and transformDuration is 0 when the transform was not invoked.
C13_MetricsConsistency ==
    \A r \in Calls :
        call[r].pc = "done" =>
            LET metrics == call[r].simulation.metrics
            IN /\ metrics.totalDuration >=
                     metrics.matchingDuration + metrics.transformDuration
               /\ call[r].transformCalls = 0 => metrics.transformDuration = 0

\* the condition of a direct call on a rule of one condition
TheCondition == evaluation.route.conditions[1]

FieldTypes == {"payload", "header", "metadata"}

KnownOperators == {"equals", "contains", "regex", "exists"}

\* the value the code compares: what the evaluate...Condition methods look up
Resolved(condition, input) ==
    CASE condition.type = "payload" ->
            getNestedValue(input.payload, condition.field.s)
      [] condition.type = "header" -> GetProp(input.headers, condition.field.s)
      [] condition.type = "metadata" ->
            GetProp(input.metadata, condition.field.s)

\* the walk of the claims: segment by segment through keyed containers,
\* absent as soon as a segment is missing or the value is not a container
RECURSIVE Walk(_, _)
Walk(current, keys) ==
    IF keys = <<>> THEN current
    ELSE IF current.t = "object" /\ Head(keys) \in DOMAIN current.f
         THEN Walk(current.f[Head(keys)], Tail(keys))
         ELSE Undefined

\* the value the claims resolve: payload and metadata are walked, a header
\* is one literal key
Claimed(condition, input) ==
    CASE condition.type = "payload" ->
            Walk(input.payload, Split(condition.field.s))
      [] condition.type = "metadata" ->
            Walk(input.metadata, Split(condition.field.s))
      [] condition.type = "header" ->
            Walk(input.headers, <<condition.field.s>>)

\* C14 as claimed: a payload, header or metadata condition whose field is
\* unset or empty, or resolves to an absent value, is false for every
\* operator and every comparison value.
C14_AbsentNeverMatches ==
    (/\ evaluation # Null
     /\ TheCondition.type \in FieldTypes
     /\ TheCondition.operator \in KnownOperators
     /\ \/ ~Truthy(TheCondition.field)
        \/ /\ Claimed(TheCondition, evaluation.input) = Undefined
           /\ Resolved(TheCondition, evaluation.input) = Undefined)
    => ~evaluation.result

\* what jqService.transform answers for the jq condition of the direct call
ConditionAnswer ==
    JqTransform(jqInitialized, jqModule, TheCondition.jqExpression.s,
                evaluation.input.payload)

\* the jq condition of the direct call was evaluated with success
JqEvaluated ==
    /\ evaluation # Null
    /\ TheCondition.type = "jq"
    /\ Truthy(TheCondition.jqExpression)
    /\ ~ConditionAnswer.thrown
    /\ ConditionAnswer.success

RuleAnswer(route, input) ==
    JqTransform(jqInitialized, jqModule, route.conditions[1].jqExpression.s,
                input.payload)

\* the first rule of the call has a jq condition whose expression failed:
\* the capability returned a failure or threw
JqConditionFailed(c) ==
    /\ c.pc = "done"
    /\ c.routes[1].conditions[1].type = "jq"
    /\ Truthy(c.routes[1].conditions[1].jqExpression)
    /\ \/ RuleAnswer(c.routes[1], c.input).thrown
       \/ ~RuleAnswer(c.routes[1], c.input).success

\* the message of the failure
FailureMessage(answer) ==
    IF answer.thrown THEN answer.message ELSE answer.error

\* C16 as claimed: when the expression of a jq condition fails, the condition
\* is false, the remaining rules are examined, and the result's errors hold
\* a warning with the message of the failure.
C16_FailedJqConditionWarning ==
    LET c == call[1]
    IN JqConditionFailed(c) =>
          /\ Selected(c) # c.routes[1].id
          /\ Len(c.routes) > 1 => Selected(c) = c.routes[2].id
          /\ HasError(c.simulation, "warning",
                      FailureMessage(RuleAnswer(c.routes[1], c.input)))

\* the condition's type or operator is not one the code knows
Unknown(condition) ==
    \/ condition.type \notin FieldTypes \cup {"jq"}
    \/ condition.type \in FieldTypes /\ condition.operator \notin KnownOperators

\* C17 as claimed: a condition of unknown type or operator never matches,
\* and the result's errors hold a warning for it.
C17_UnknownConditionWarning ==
    LET c == call[1]
    IN (c.pc = "done" /\ Unknown(c.routes[1].conditions[1])) =>
          /\ Selected(c) # c.routes[1].id
          /\ \E k \in 1..Len(c.simulation.output.errors) :
                /\ c.simulation.output.errors[k].severity = "warning"
                /\ c.simulation.output.errors[k].context # "Route Matching"

\* the direct call evaluated a payload, header or metadata condition with a
\* field and the operator exists
ExistsEvaluated ==
    /\ evaluation # Null
    /\ TheCondition.type \in FieldTypes
    /\ Truthy(TheCondition.field)
    /\ TheCondition.operator = "exists"

\* C18: with a field, exists is true iff the value looked up is neither
\* absent nor null, whatever the comparison value; false, 0 and the empty
\* string exist.
C18_ExistsOperator ==
    ExistsEvaluated =>
        (evaluation.result <=>
            /\ Resolved(TheCondition, evaluation.input).t # "undefined"
            /\ Resolved(TheCondition, evaluation.input).t # "null")

\* exists is true of a metadata value false
C18_Witness ==
    /\ ExistsEvaluated
    /\ TheCondition.type = "metadata"
    /\ Resolved(TheCondition, evaluation.input) = Bool(FALSE)
    /\ evaluation.result

\* C19 as claimed: a payload or metadata condition resolves its field by
\* walking nested containers along the dotted field, absent as soon as a
\* segment is missing or the value is not a container, and a header
\* condition by the one literal key; the resolution is observed through the
\* operator exists.
C19_WalkedNamespaces ==
    ExistsEvaluated =>
        (evaluation.result <=>
            /\ Claimed(TheCondition, evaluation.input).t # "undefined"
            /\ Claimed(TheCondition, evaluation.input).t # "null")

\* the run ended in the catch block
Faulted(simulation) ==
    \E k \in 1..Len(simulation.output.errors) :
        simulation.output.errors[k].context = "Simulation"

\* C20: simulations never holds more than 10 entries; a run that ends
\* without fault becomes currentSimulation and the head of the list, ahead
\* of the 9 newest entries the list had, and no other step changes the list:
\* the list is the last 10 runs that ended without fault, newest first.
C20_HistoryBound ==
    /\ [](Len(simulations) <= HistoryLimit)
    /\ [][IF \E r \in Calls :
                /\ call[r].pc # "done"
                /\ call'[r].pc = "done"
                /\ ~Faulted(call'[r].simulation)
          THEN \E r \in Calls :
                  /\ call'[r].pc = "done"
                  /\ currentSimulation' = call'[r].simulation
                  /\ simulations' =
                        <<call'[r].simulation>>
                        \o SubSeq(simulations, 1,
                                  IF Len(simulations) < HistoryLimit
                                  THEN Len(simulations)
                                  ELSE HistoryLimit - 1)
          ELSE simulations' = simulations]_vars

\* the eleventh run of a caller ended without fault after ten others did: the
\* list holds 10 runs and the first run has left it
C20_Witness ==
    /\ call[1].pc = "done"
    /\ call[1].runs = HistoryLimit + 1
    /\ Len(simulations) = HistoryLimit
    /\ simulations[1] = call[1].simulation
    /\ currentSimulation = call[1].simulation
    /\ simulations[HistoryLimit].id = 1 + MaxCalls

\* the call has started and has not completed
InFlight(c) == c.pc \in {"matching", "transforming"}

\* C21 as claimed: while some startSimulation call is in flight, isRunning is
\* true, also when calls overlap and one of them has completed.
C21_RunningWhileInFlight ==
    (\E r \in Calls : InFlight(call[r])) => isRunning

\* C29 as claimed: currentSimulation is null or an entry of simulations,
\* after any sequence of startSimulation, selectSimulation and
\* clearSimulations.
C29_CurrentInHistory ==
    \/ currentSimulation = Null
    \/ \E i \in 1..Len(simulations) : simulations[i] = currentSimulation

\* the combined result of the rule's conditions in the call
CombinedResult(c, h) ==
    evaluateConditions(c.sortedRoutes[h], c.input, jqInitialized, jqModule)

\* C24: the events of a call are in the order of the sorted rules, and a rule
\* has a condition evaluated (or its transform invoked) only when the
\* combined result of every rule sorted ahead of it was false: after the
\* first rule whose result is true no condition of a later rule is evaluated
\* and the capability is not invoked for one.
C24_ShortCircuit ==
    LET c == call[1]
    IN \A a \in 1..Len(c.log) :
          /\ \A b \in a..Len(c.log) : c.log[a].rule <= c.log[b].rule
          /\ \A h \in 1..(c.log[a].rule - 1) :
                ~CombinedResult(c, h)

\* a call selected a rule after it evaluated the conditions of a rule ahead
\* of it, and a rule with a jq condition is sorted behind the selected one
C24_Witness ==
    LET c == call[1]
    IN /\ c.pc = "done"
       /\ Selected(c) # Absent
       /\ c.index < Len(c.sortedRoutes)
       /\ CallsJq(c.sortedRoutes[c.index + 1])
       /\ \E a \in 1..Len(c.log) :
             c.log[a].e = "invoke" /\ c.log[a].rule < c.index
       /\ \E a \in 1..Len(c.log) :
             c.log[a].e = "invoke" /\ c.log[a].rule = c.index

\* the position in the log of the event, 0 when the log does not hold it
Position(log, event) ==
    IF \E a \in 1..Len(log) : log[a] = event
    THEN CHOOSE a \in 1..Len(log) :
            log[a] = event /\ \A b \in 1..(a - 1) : log[b] # event
    ELSE 0

\* C25 as claimed: a condition evaluation starts only when every evaluation
\* started before it has ended, so that at most one is in flight.
C25_OneEvaluationInFlight ==
    LET log == call[1].log
    IN \A a, b \in 1..Len(log) :
          (b < a /\ log[a].e = "start" /\ log[b].e = "start")
          => \E m \in (b + 1)..(a - 1) :
                log[m] = Ended(log[b].rule, log[b].condition)

\* C25, amended: a condition of a rule starts only when every evaluation of
\* the rules before it has ended; the conditions of one rule start in list
\* order, a condition that does not suspend ends before the next starts, and
\* a jq condition with an expression ends after the last condition of its
\* rule has started.
C25_RulesDoNotOverlap ==
    LET c == call[1]
        log == c.log
    IN \A a \in 1..Len(log) :
          log[a].e = "start" =>
             /\ \A b \in 1..(a - 1) :
                   (log[b].e = "start" /\ log[b].rule < log[a].rule)
                   => \E m \in (b + 1)..(a - 1) :
                         log[m] = Ended(log[b].rule, log[b].condition)
             /\ \A b \in 1..(a - 1) :
                   (log[b].e = "start" /\ log[b].rule = log[a].rule)
                   => /\ log[b].condition < log[a].condition
                      /\ IF Suspends(c.sortedRoutes[log[b].rule]
                                        .conditions[log[b].condition])
                         THEN Position(log, Ended(log[b].rule,
                                                  log[b].condition))
                              \notin 1..a
                         ELSE log[b + 1] = Ended(log[b].rule,
                                                 log[b].condition)

\* a finished call evaluated a rule of two jq conditions: the second started
\* while the first was in flight, and both ended
C25_Witness ==
    LET c == call[1]
    IN /\ c.pc = "done"
       /\ \E k \in 1..Len(c.sortedRoutes), i, j \in 1..MaxConditions :
             /\ i < j
             /\ Position(c.log, Invoked(k, i)) > 0
             /\ Position(c.log, Invoked(k, i))
                   < Position(c.log, Started(k, j))
             /\ Position(c.log, Started(k, j))
                   < Position(c.log, Ended(k, i))
             /\ Position(c.log, Invoked(k, j)) > 0
             /\ Position(c.log, Ended(k, j)) > 0

\* how many times the log holds the event
Count(log, event) == Cardinality({a \in 1..Len(log) : log[a] = event})

\* C26: in one run the transform is invoked at most once, after every
\* condition event, for the selected rule and only when that rule's transform
\* is enabled; every condition is started and every jq condition invoked at
\* most once; a failed transform leaves exactly one error entry.
C26_NoRetries ==
    LET c == call[1]
        log == c.log
    IN /\ Cardinality({a \in 1..Len(log) : log[a].e = "transform"}) <= 1
       /\ \A a \in 1..Len(log) :
             IF log[a].e = "transform"
             THEN /\ a = Len(log)
                  /\ Matched(c)
                  /\ Selected(c) = c.sortedRoutes[log[a].rule].id
                  /\ c.sortedRoutes[log[a].rule].transform.t # "undefined"
                  /\ c.sortedRoutes[log[a].rule].transform.enabled
             ELSE Count(log, log[a]) = 1
       /\ TransformFailed(c) =>
             /\ Len(c.simulation.output.errors) = 1
             /\ c.simulation.output.errors[1].context = "JQ Transformation"

\* a finished call whose transform failed, after jq conditions of two rules
\* were evaluated
C26_Witness ==
    LET c == call[1]
    IN /\ TransformFailed(c)
       /\ c.index > 1
       /\ Count(c.log, Transformed(c.index)) = 1
       /\ Count(c.log, Invoked(c.index, 1)) = 1
       /\ \E j \in 1..MaxConditions : Count(c.log, Invoked(1, j)) = 1

\* C27: from its call on, the caller's input and rule list are what the
\* caller passed, and the simulation's input is that input too.
C27_InputsUnchanged ==
    \A r \in Calls :
        call[r].pc # "idle" =>
           /\ call[r].input = call[r].passed.input
           /\ call[r].routes = call[r].passed.routes
           /\ call[r].simulation.input = call[r].passed.input

\* a call ended in the catch block and another ended with a selected rule;
\* the first was given a list that the sort puts in another order
C27_Witness ==
    \E r, q \in Calls :
        /\ call[r].pc = "done"
        /\ Faulted(call[r].simulation)
        /\ call[r].sortedRoutes # call[r].passed.routes
        /\ Len(call[r].sortedRoutes) = Len(call[r].passed.routes)
        /\ call[q].pc = "done"
        /\ ~Faulted(call[q].simulation)
        /\ Selected(call[q]) # Absent

\* C28 as claimed: whatever calls of init and transform overlap, the jq
\* module is loaded at most once.
C28_LoadedOnce == jqLoads <= 1

(***************************************************************************)
(* store/routeStore.ts and services/storage.ts                             *)
(***************************************************************************)
\* the route a user adds: it has no transform
NewRoutes == {Route(1, TRUE, 100, <<CondHigh>>, "AND", Undefined)}

BaseNames == {route.name : route \in NewRoutes}

\* a name followed by n times the suffix of duplicateRoute
RECURSIVE Suffixed(_, _)
Suffixed(name, n) == IF n = 0 THEN name ELSE Suffixed(name, n - 1) \o "-copy"

\* the updates of updateRoute: a new name, which a copy may bear already
Updates == {[name |-> Suffixed(RouteNames[1], 1)]}

\* how many suffixes the name carries
Copies(name) ==
    CHOOSE n \in 0..MaxCopies : \E base \in BaseNames : name = Suffixed(base, n)

\* route[key]: a property the object lacks reads as undefined
ReadProp(route, key) == IF key \in DOMAIN route THEN route[key] ELSE Undefined

RouteKeys == DOMAIN Route(1, TRUE, 100, <<>>, "AND", Undefined)

\* the properties of Route that may be undefined
OptionalKeys == {"transform"}

\* the two lists read the same: as long, and property by property
SameRoutes(a, b) ==
    /\ Len(a) = Len(b)
    /\ \A i \in 1..Len(a) :
          \A key \in RouteKeys :
             IF key \in OptionalKeys
             THEN ReadProp(a[i], key) = ReadProp(b[i], key)
             ELSE a[i][key] = b[i][key]

\* an item of localStorage: a text, which is JSON or not
Item(valid, text) == [t |-> "item", valid |-> valid, text |-> text]

Corrupt == Item(FALSE, <<>>)

\* JSON.stringify(routes): the properties whose value is undefined are left
\* out of the text
JsonStringify(routes) ==
    Item(TRUE,
         [i \in 1..Len(routes) |->
             [key \in {k \in DOMAIN routes[i] :
                          k \in OptionalKeys => routes[i][k] # Undefined} |->
                 routes[i][key]]])

\* JSON.parse(data), which throws on a text that is not JSON
JsonParse(data) ==
    IF data.valid THEN [thrown |-> FALSE, value |-> data.text]
    ELSE [thrown |-> TRUE, value |-> <<>>]

\* StorageService.loadRoutes, storage.ts lines 18-26
storageLoadRoutes(storage) ==
    IF storage = Null THEN <<>>
    ELSE IF JsonParse(storage).thrown THEN <<>>
         ELSE JsonParse(storage).value

\* { ...route, ...updates }
Spread(route, updates) ==
    [key \in DOMAIN route \cup DOMAIN updates |->
        IF key \in DOMAIN updates THEN updates[key] ELSE route[key]]

\* what the store did last: an action that does not save, under its name,
\* or a save, which went through or failed
Last(action, saved) == IF saved THEN action ELSE "failed"

\* the message of the Error that saveRoutes throws, storage.ts line 14
SaveError == Str("Failed to save routes to localStorage")

\* mutant: the routes are set before the save is tried
setRoutesBeforeSave(store, storage, routes, quota) ==
    IF quota
    THEN [store |-> [store EXCEPT !.routes = routes, !.error = Null],
          storage |-> JsonStringify(routes)]
    ELSE [store |-> [store EXCEPT !.routes = routes, !.error = SaveError],
          storage |-> storage]

\* mutant: a failed save is swallowed
setRoutesSilent(store, storage, routes, quota) ==
    IF quota
    THEN [store |-> [store EXCEPT !.routes = routes, !.error = Null],
          storage |-> JsonStringify(routes)]
    ELSE [store |-> store, storage |-> storage]

\* setRoutes, routeStore.ts lines 39-46, with saveRoutes, storage.ts lines
\* 9-16: quota tells whether localStorage.setItem goes through
setRoutes(store, storage, routes, quota) ==
    IF quota
    THEN [store |-> [store EXCEPT !.routes = routes, !.error = Null],
          storage |-> JsonStringify(routes)]
    ELSE [store |-> [store EXCEPT !.error = SaveError],
          storage |-> storage]

\* the frame of the route store's actions
RouteFrame ==
    UNCHANGED <<simulations, currentSimulation, isRunning, jqInitialized,
                jqLoads, jqModule, now, call, evaluation, initCalls>>

\* lines 29-37
LoadRoutes ==
    /\ routeStore' = [routeStore EXCEPT
                         !.routes = storageLoadRoutes(localStorage),
                         !.isLoading = FALSE,
                         !.error = Null,
                         !.last = Last("loadRoutes", TRUE)]
    /\ UNCHANGED localStorage
    /\ RouteFrame

\* setRoutes called by the application
SetRoutes(routes, quota) ==
    LET set == setRoutes(routeStore, localStorage, routes, quota)
    IN /\ routeStore' = [set.store EXCEPT !.last = Last("saved", quota)]
       /\ localStorage' = set.storage
       /\ RouteFrame

\* lines 48-50
SelectRoute(route) ==
    /\ routeStore' = [routeStore EXCEPT !.selectedRoute = route,
                                        !.last = Last("selectRoute", TRUE)]
    /\ UNCHANGED localStorage
    /\ RouteFrame

\* lines 52-56
AddRoute(route, quota) ==
    LET set == setRoutes(routeStore, localStorage,
                         Append(routeStore.routes, route), quota)
    IN /\ Len(routeStore.routes) < MaxStored
       /\ routeStore' = [set.store EXCEPT !.selectedRoute = route,
                                          !.last = Last("saved", quota)]
       /\ localStorage' = set.storage
       /\ RouteFrame

\* lines 58-69
UpdateRoute(name, updates, quota) ==
    LET routes == [i \in 1..Len(routeStore.routes) |->
                      IF routeStore.routes[i].name = name
                      THEN Spread(routeStore.routes[i], updates)
                      ELSE routeStore.routes[i]]
        set == setRoutes(routeStore, localStorage, routes, quota)
        selectedRoute == set.store.selectedRoute
    IN /\ routeStore' =
             [set.store EXCEPT
                 !.selectedRoute =
                     IF selectedRoute # Null /\ selectedRoute.name = name
                     THEN Spread(selectedRoute, updates)
                     ELSE selectedRoute,
                 !.last = Last("saved", quota)]
       /\ localStorage' = set.storage
       /\ RouteFrame

\* lines 71-79
DeleteRoute(name, quota) ==
    LET routes == SelectSeq(routeStore.routes, LAMBDA route : route.name # name)
        set == setRoutes(routeStore, localStorage, routes, quota)
        selectedRoute == set.store.selectedRoute
    IN /\ routeStore' =
             [set.store EXCEPT
                 !.selectedRoute =
                     IF selectedRoute # Null /\ selectedRoute.name = name
                     THEN Null
                     ELSE selectedRoute,
                 !.last = Last("saved", quota)]
       /\ localStorage' = set.storage
       /\ RouteFrame

\* lines 81-92
DuplicateRoute(name, quota) ==
    LET found == {i \in 1..Len(routeStore.routes) :
                     routeStore.routes[i].name = name}
        route == routeStore.routes[CHOOSE i \in found : \A j \in found : i <= j]
        newRoute == Spread(route, [name |-> route.name \o "-copy"])
        set == setRoutes(routeStore, localStorage,
                         Append(routeStore.routes, newRoute), quota)
    IN /\ Len(routeStore.routes) < MaxStored
       /\ IF found = {}
          THEN /\ routeStore' =
                     [routeStore EXCEPT !.last = Last("duplicateRoute", TRUE)]
               /\ UNCHANGED localStorage
          ELSE /\ Copies(route.name) < MaxCopies
               /\ routeStore' =
                     [set.store EXCEPT !.last = Last("saved", quota)]
               /\ localStorage' = set.storage
       /\ RouteFrame

\* lines 94-99, for the indexes of a drag inside the list
ReorderRoutes(startIndex, endIndex, quota) ==
    LET removed == routeStore.routes[startIndex + 1]
        without == [i \in 1..(Len(routeStore.routes) - 1) |->
                       IF i <= startIndex THEN routeStore.routes[i]
                       ELSE routeStore.routes[i + 1]]
        routes == SubSeq(without, 1, endIndex) \o <<removed>>
                  \o SubSeq(without, endIndex + 1, Len(without))
        set == setRoutes(routeStore, localStorage, routes, quota)
    IN /\ startIndex \in 0..(Len(routeStore.routes) - 1)
       /\ endIndex \in 0..(Len(routeStore.routes) - 1)
       /\ routeStore' = [set.store EXCEPT !.last = Last("saved", quota)]
       /\ localStorage' = set.storage
       /\ RouteFrame

\* lines 101-103
ClearError ==
    /\ routeStore' = [routeStore EXCEPT !.error = Null,
                                        !.last = Last("clearError", TRUE)]
    /\ UNCHANGED localStorage
    /\ RouteFrame

\* the names of the routes the store holds
StoredNames == {routeStore.routes[i].name : i \in 1..Len(routeStore.routes)}

\* the route store on its own; localStorage holds what an earlier session
\* left: nothing, a list, or a text that is not JSON
InitRoutes ==
    /\ InitStore
    /\ jqModule = "loaded"
    /\ localStorage \in
          {Null, Corrupt}
          \cup {JsonStringify(<<route>>) : route \in NewRoutes}

NextRoutes ==
    \/ LoadRoutes
    \/ \E routes \in {<<>>} \cup {<<route>> : route \in NewRoutes},
          quota \in BOOLEAN : SetRoutes(routes, quota)
    \/ \E route \in {Null}
                    \cup {routeStore.routes[i] :
                             i \in 1..Len(routeStore.routes)} :
          SelectRoute(route)
    \/ \E route \in NewRoutes, quota \in BOOLEAN : AddRoute(route, quota)
    \/ \E name \in StoredNames, updates \in Updates, quota \in BOOLEAN :
          UpdateRoute(name, updates, quota)
    \/ \E name \in StoredNames, quota \in BOOLEAN : DeleteRoute(name, quota)
    \/ \E name \in StoredNames \cup {"Extra"}, quota \in BOOLEAN :
          DuplicateRoute(name, quota)
    \/ \E startIndex, endIndex \in 0..(MaxStored - 1), quota \in BOOLEAN :
          ReorderRoutes(startIndex, endIndex, quota)
    \/ ClearError

SpecRoutes == InitRoutes /\ [][NextRoutes]_vars


\* C22: a route store action whose save fails leaves the store with an error
\* that is not null and with the list of routes it had before the action;
\* clearError sets the error to null and changes nothing else of the store
\* or of localStorage.
C22_FailedSave ==
    [][/\ routeStore'.last = "failed" =>
             /\ routeStore'.error # Null
             /\ routeStore'.routes = routeStore.routes
             /\ localStorage' = localStorage
       /\ routeStore'.last = "clearError" =>
             /\ routeStore'.error = Null
             /\ routeStore'.routes = routeStore.routes
             /\ routeStore'.selectedRoute = routeStore.selectedRoute
             /\ routeStore'.isLoading = routeStore.isLoading
             /\ localStorage' = localStorage]_vars

\* a save failed on a store that holds routes, one of them selected
C22_Witness ==
    /\ routeStore.last = "failed"
    /\ routeStore.error = SaveError
    /\ Len(routeStore.routes) > 1
    /\ routeStore.selectedRoute # Null
    /\ SameRoutes(routeStore.routes, storageLoadRoutes(localStorage))


\* C23 as claimed: no two routes of the store's list have the same name,
\* whatever addRoute, duplicateRoute, updateRoute, deleteRoute and
\* reorderRoutes did to a list whose names were pairwise distinct.
C23_UniqueNames ==
    \A i, j \in 1..Len(routeStore.routes) :
       routeStore.routes[i].name = routeStore.routes[j].name => i = j


\* the list the store shows is the list a loadRoutes would read
Agree == SameRoutes(routeStore.routes, storageLoadRoutes(localStorage))

\* C30: once loadRoutes has run or a save has gone through, the store's
\* list of routes and the list held in localStorage are the same, and they
\* stay the same through every later action of the store, whether its save
\* goes through or fails; a loadRoutes then yields the list the store showed.
C30_StoreAndStorageAgree ==
    [][/\ (routeStore'.last \in {"loadRoutes", "saved"} \/ Agree) => Agree'
       /\ (Agree /\ routeStore'.last = "loadRoutes") =>
             SameRoutes(routeStore'.routes, routeStore.routes)]_vars

\* after a save that went through and left routes without a transform in
\* the store, an action failed to save and the two lists are still the same
C30_Witness ==
    /\ routeStore.last = "failed"
    /\ Len(routeStore.routes) = MaxStored
    /\ \E i \in 1..Len(routeStore.routes) :
          /\ "transform" \in DOMAIN routeStore.routes[i]
          /\ "transform" \notin DOMAIN storageLoadRoutes(localStorage)[i]
    /\ Agree

====
